---- MODULE Spec2Model ----
(***************************************************************************)
(* compare-runners: the incremental job-history cache (fetch_jobs_data),   *)
(* the aggregation (get_measured_jobs, match_runner, get_job_stats) and    *)
(* the orchestrator (main).                                                *)
(*                                                                         *)
(* Time is counted in ticks; a day has TicksPerDay ticks.  An optional     *)
(* value (Python's None or a value) is a sequence of length 0 or 1.  A     *)
(* text is a sequence of characters where the code takes it apart or puts  *)
(* it together (the tags), and a string otherwise.                         *)
(***************************************************************************)
EXTENDS Integers, Sequences, FiniteSets, TLC

\* ------------------------------------------------------------------ bounds

\* Jobs the remote of one project ever holds.
MaxJobs == 4
\* Runs of fetch_jobs_data in one behaviour of Spec.
MaxFetches == 2
\* Ticks in a day: since_date D is the tick D * TicksPerDay.
TicksPerDay == 2
\* The page size, jobs.py line 68 (100 in the program), scaled down so that a
\* listing spans several pages.
per_page == 2
\* Configured projects.
NumProjects == 2
\* Jobs per project at the start of the orchestrator's run.
MainJobs == 2
\* Rows of a store handed to the aggregation.
MaxRows == 2
\* Jobs of a project that are running at one time.
MaxRunning == 1
\* Jobs of a project without runner metadata.
MaxNoRunner == 1

\* The initial value of the three running minima, jobs.py lines 188, 191, 194.
DURATION_MIN_INIT == 10000000

Projects == 1..NumProjects
\* The values measure_since takes (days).
SinceDates == {0, 1}
\* created_at of a project's first job is FirstTick or FirstTick + 1.
FirstTick == 1

None == <<>>
Some(x) == <<x>>

\* ------------------------------------------------------------- the remote

JobNames == <<"build", "test">>
JobNameOf(id) == JobNames[(id % 2) + 1]

RunnerMeta == [description |-> "hpc-1", ip_address |-> "10.0.0.1",
               runner_type |-> "instance_type"]
\* A job entity of the remote API.  runner is None for a job whose runner
\* is no longer known.
Job(id, t, st, rn) ==
    [id |-> id, created_at |-> t, name |-> JobNameOf(id), status |-> st,
     duration |-> 10 * id, queued_duration |-> id, runner |-> rn,
     tag_list |-> << <<"d">>, <<"x">> >>, web_url |-> id]

LastCreated(js) == IF js = <<>> THEN FirstTick ELSE js[Len(js)].created_at

RECURSIVE Reverse(_)
Reverse(s) == IF s = <<>> THEN <<>> ELSE Append(Reverse(Tail(s)), Head(s))

IsSuccess(j) == j.status = "success"
IsRunning(j) == j.status = "running"
HasNoRunner(j) == j.runner = None

\* project.jobs.list(order_by="created_at", sort="desc", scope=["success"]):
\* the successful jobs, newest first.  Jobs are held in creation order, so
\* the descending order is the reverse.
Listing(js) == Reverse(SelectSeq(js, IsSuccess))

Min(a, b) == IF a < b THEN a ELSE b

\* Page number pg of a listing, pages of n.
PageOf(lst, pg, n) == SubSeq(lst, (pg - 1) * n + 1, Min(pg * n, Len(lst)))

\* ----------------------------------------------------------------- files

Absent == [exists |-> FALSE, rows |-> <<>>]

\* ",".join(job.tag_list)
RECURSIVE JoinComma(_)
JoinComma(tags) ==
    IF tags = <<>> THEN <<>>
    ELSE IF Len(tags) = 1 THEN tags[1]
    ELSE tags[1] \o <<",">> \o JoinComma(Tail(tags))

\* dict.get(key, default)
Get(d, k, default) == IF k \in DOMAIN d THEN d[k] ELSE default

\* The text csv.writer writes for a number, and float() of that text.
FloatText(v) == <<v>>
float(cell) == cell[1]

\* The row csv.writer writes for a job: ten cells, terminated by "\r\n".
RowOf(job) ==
    [created_at |-> job.created_at, job_name |-> job.name,
     status |-> job.status, duration |-> FloatText(job.duration),
     queued_duration |-> FloatText(job.queued_duration),
     runner_description |-> Get(job.runner[1], "description", ""),
     runner_ip_address |-> Get(job.runner[1], "ip_address", ""),
     runner_type |-> Get(job.runner[1], "runner_type", ""),
     tags |-> JoinComma(job.tag_list), web_url |-> job.web_url,
     eol |-> "CRLF"]

\* A job without runner metadata written with empty runner cells.
RowsWrittenNoRunnerCheck(job) ==
    IF job.runner = None
    THEN << RowOf([job EXCEPT !.runner = Some([id |-> 0])]) >>
    ELSE << RowOf(job) >>

\* Lines 102-119: try: writerow([...]) except AttributeError: warn.  job.runner.get raises
\* AttributeError when runner is None, before writerow is entered: no row.
RowsWritten(job) == IF job.runner = None THEN <<>> ELSE << RowOf(job) >>

\* The stop test with < in place of <= for latest_data_cutoff.
StopsAtStrict(t, cutoff, latest) ==
    \/ t < cutoff
    \/ latest # None /\ t < latest[1]

\* Lines 90-96: whether the scan stops at a job created at t.
StopsAt(t, cutoff, latest) ==
    \/ t < cutoff
    \/ latest # None /\ t <= latest[1]

\* The for loop with a break that does not set hit_cutoff.
RECURSIVE ScanBatchNoStop(_, _, _)
ScanBatchNoStop(batch, cutoff, latest) ==
    IF batch = <<>> THEN [rows |-> <<>>, hit |-> FALSE]
    ELSE IF StopsAt(Head(batch).created_at, cutoff, latest)
         THEN [rows |-> <<>>, hit |-> FALSE]
         ELSE LET rest == ScanBatchNoStop(Tail(batch), cutoff, latest)
              IN  [rows |-> RowsWritten(Head(batch)) \o rest.rows,
                   hit |-> rest.hit]

\* The for loop over one page: the rows written and whether a stop was hit.
RECURSIVE ScanBatch(_, _, _)
ScanBatch(batch, cutoff, latest) ==
    IF batch = <<>> THEN [rows |-> <<>>, hit |-> FALSE]
    ELSE IF StopsAt(Head(batch).created_at, cutoff, latest)
         THEN [rows |-> <<>>, hit |-> TRUE]
         ELSE LET rest == ScanBatch(Tail(batch), cutoff, latest)
              IN  [rows |-> RowsWritten(Head(batch)) \o rest.rows,
                   hit |-> rest.hit]

\* open(path, "a") instead of "w": what the file held stays.
OpenForAppend(f) == [exists |-> TRUE, rows |-> f.rows]

\* open(tmp_csv_data_file, "w", newline=""): created or truncated.
OpenForWrite(f) == [exists |-> TRUE, rows |-> <<>>]

\* open(csv_data_file, "r").read() then write() in text mode: every line
\* end is translated to "\n".
TranslateNewlines(rows) == [i \in 1..Len(rows) |-> [rows[i] EXCEPT !.eol = "LF"]]

\* csv.reader(open(path, newline="")): the cells of each row.
Cells(r) == [f \in DOMAIN r \ {"eol"} |-> r[f]]
csv_reader(f) == [i \in 1..Len(f.rows) |-> Cells(f.rows[i])]

\* The last row's created_at instead of the first row's.
LatestDataCutoffLastRow(f) ==
    IF f.exists /\ f.rows # <<>>
    THEN Some(f.rows[Len(f.rows)].created_at) ELSE None

\* Line 54: row[0] raises IndexError for a first row without columns.
LatestRaises(f) ==
    IF f.exists /\ f.rows # <<>> /\ "created_at" \notin DOMAIN f.rows[1]
    THEN "IndexError" ELSE ""

\* Lines 49-55: the first row's created_at if the file exists and has a row.
LatestDataCutoff(f) ==
    IF f.exists /\ f.rows # <<>> THEN Some(f.rows[1].created_at) ELSE None

\* fromisoformat(f"{measure_since}T00:00:00.0Z")
CutoffDate(since) == since * TicksPerDay

Range(s) == {s[i] : i \in 1..Len(s)}
Prefixes(s) == {SubSeq(s, 1, n) : n \in 0..Len(s)}
Drop(s, n) == SubSeq(s, n + 1, Len(s))

\* ----------------------------------------------------------- aggregation

\* re.fullmatch(pattern, text) for the patterns and the runner descriptions
\* the model draws.
fullmatch(pattern, text) ==
    CASE pattern = "" -> text = ""
      [] pattern = "hpc-1" -> text = "hpc-1"
      [] pattern = "hpc-.*" -> text \in {"hpc-1", "hpc-2"}
      [] OTHER -> FALSE

\* A configured runner matcher (config_parser.Runner).
Runner(name, pattern, from, to) ==
    [name |-> name, matcher_name |-> pattern, matcher_from |-> from,
     matcher_to |-> to]

\* A pattern is applied if it is neither None nor the empty string.
Truthy(opt) == opt # None /\ opt[1] # ""

\* match_runner with the two time bounds exclusive.
match_runner_exclusive(job_created_at, job_runner_description, runner) ==
    IF Truthy(runner.matcher_name)
       /\ ~fullmatch(runner.matcher_name[1], job_runner_description)
    THEN FALSE
    ELSE IF runner.matcher_from # None
            /\ job_created_at <= runner.matcher_from[1]
    THEN FALSE
    ELSE IF runner.matcher_to # None /\ job_created_at >= runner.matcher_to[1]
    THEN FALSE
    ELSE TRUE

\* Lines 160-178.
match_runner(job_created_at, job_runner_description, runner) ==
    IF Truthy(runner.matcher_name)
       /\ ~fullmatch(runner.matcher_name[1], job_runner_description)
    THEN FALSE
    ELSE IF runner.matcher_from # None
            /\ job_created_at < runner.matcher_from[1]
    THEN FALSE
    ELSE IF runner.matcher_to # None /\ job_created_at > runner.matcher_to[1]
    THEN FALSE
    ELSE TRUE

\* The characters of the job names the model draws, and their code points.
NameChars(n) ==
    CASE n = "build" -> <<"b", "u", "i", "l", "d">>
      [] n = "build2" -> <<"b", "u", "i", "l", "d", "2">>
      [] n = "test" -> <<"t", "e", "s", "t">>
      [] n = "Test" -> <<"T", "e", "s", "t">>

CodePoint(c) ==
    CASE c = "2" -> 50 [] c = "T" -> 84 [] c = "b" -> 98 [] c = "d" -> 100
      [] c = "e" -> 101 [] c = "i" -> 105 [] c = "l" -> 108 [] c = "s" -> 115
      [] c = "t" -> 116 [] c = "u" -> 117

\* a < b for two str: by the first code point that differs, a proper
\* prefix first.
RECURSIVE LexLess(_, _)
LexLess(a, b) ==
    IF b = <<>> THEN FALSE
    ELSE IF a = <<>> THEN TRUE
    ELSE IF Head(a) # Head(b) THEN CodePoint(Head(a)) < CodePoint(Head(b))
    ELSE LexLess(Tail(a), Tail(b))

str_less(x, y) == LexLess(NameChars(x), NameChars(y))

\* sorted(a set of str)
RECURSIVE sorted(_)
sorted(S) ==
    IF S = {} THEN <<>>
    ELSE LET least == CHOOSE x \in S : \A y \in S \ {x} : str_less(x, y)
         IN  <<least>> \o sorted(S \ {least})

Least(S) == CHOOSE x \in S : \A y \in S : x <= y

\* What the loop of a reader raises: what its body raises at the first row
\* at which it raises, "" if at none.
FirstRaised(raises) ==
    LET at == {i \in 1..Len(raises) : raises[i] # ""}
    IN  IF at = {} THEN "" ELSE raises[Least(at)]

\* The columns of a row, in the order of the file; a row with fewer
\* columns has the first of them.
Columns ==
    <<"created_at", "job_name", "status", "duration", "queued_duration",
      "runner_description", "runner_ip_address", "runner_type", "tags",
      "web_url">>

\* row[k] raises IndexError for a row of k columns or fewer.
HasColumns(row, n) == \A k \in 1..n : Columns[k] \in DOMAIN row

\* float(text) raises ValueError for a text that is not a number; the text
\* of a number v is <<v>>.
IsFloatText(cell) == cell # <<>>

\* Line 140: row[1].
MeasuredRowRaises(row) == IF HasColumns(row, 2) THEN "" ELSE "IndexError"

\* get_measured_jobs with a list in place of the sorted set.
get_measured_jobs_list(f) ==
    LET rows == csv_reader(f)
        raised == FirstRaised([i \in 1..Len(rows) |->
                                  MeasuredRowRaises(rows[i])])
    IN  [raised |-> raised,
         value |-> IF raised # "" THEN <<>>
                   ELSE [i \in 1..Len(rows) |-> rows[i].job_name]]

\* get_measured_jobs: what it raises ("" if nothing) and what it returns,
\* the job names of the rows as a sorted list.
get_measured_jobs(f) ==
    LET rows == csv_reader(f)
        raised == FirstRaised([i \in 1..Len(rows) |->
                                  MeasuredRowRaises(rows[i])])
    IN  [raised |-> raised,
         value |-> IF raised # "" THEN <<>>
                   ELSE sorted({rows[i].job_name : i \in 1..Len(rows)})]

\* Lines 184-196.
StatsInit ==
    [total_runtime_duration |-> 0, total_queue_duration |-> 0,
     total_job_duration |-> 0,
     runtime_duration_min |-> DURATION_MIN_INIT, runtime_duration_max |-> 0,
     queue_duration_min |-> DURATION_MIN_INIT, queue_duration_max |-> 0,
     total_duration_min |-> DURATION_MIN_INIT, total_duration_max |-> 0,
     no_of_jobs |-> 0]

\* Lines 204-236: the body of the loop over the rows.
StatsStep(a, row, job_name, runner) ==
    LET job_duration == float(row.duration)
        job_queued_duration == float(row.queued_duration)
        total_duration == job_duration + job_queued_duration
    IN  IF row.job_name # job_name THEN a
        ELSE IF ~match_runner(row.created_at, row.runner_description, runner)
        THEN a
        ELSE [total_runtime_duration |-> a.total_runtime_duration + job_duration,
              total_queue_duration |-> a.total_queue_duration + job_queued_duration,
              total_job_duration |-> a.total_job_duration + total_duration,
              runtime_duration_min |->
                  IF job_duration < a.runtime_duration_min
                  THEN job_duration ELSE a.runtime_duration_min,
              runtime_duration_max |->
                  IF job_duration > a.runtime_duration_max
                  THEN job_duration ELSE a.runtime_duration_max,
              queue_duration_min |->
                  IF job_queued_duration < a.queue_duration_min
                  THEN job_queued_duration ELSE a.queue_duration_min,
              queue_duration_max |->
                  IF job_queued_duration > a.queue_duration_max
                  THEN job_queued_duration ELSE a.queue_duration_max,
              total_duration_min |->
                  IF total_duration < a.total_duration_min
                  THEN total_duration ELSE a.total_duration_min,
              total_duration_max |->
                  IF total_duration > a.total_duration_max
                  THEN total_duration ELSE a.total_duration_max,
              no_of_jobs |-> a.no_of_jobs + 1]

RECURSIVE StatsLoop(_, _, _, _)
StatsLoop(a, rows, job_name, runner) ==
    IF rows = <<>> THEN a
    ELSE StatsLoop(StatsStep(a, Head(rows), job_name, runner), Tail(rows),
                   job_name, runner)

\* A quotient of two floats, kept exact: numerator and denominator.
Quotient(n, d) == [num |-> n, den |-> d]
Zero == Quotient(0, 1)

\* The JobDurationStats returned without lines 238-244: the minima keep
\* their initial value when no row was counted.
JobDurationStatsNoReset(a) ==
    LET n == a.no_of_jobs
    IN  [runtime_duration_avg |-> Quotient(0, 1),
         runtime_duration_min |-> a.runtime_duration_min,
         runtime_duration_max |-> a.runtime_duration_max,
         queue_duration_avg |-> Quotient(0, 1),
         queue_duration_min |-> a.queue_duration_min,
         queue_duration_max |-> a.queue_duration_max,
         total_duration_avg |-> Quotient(0, 1),
         total_duration_min |-> a.total_duration_min,
         total_duration_max |-> a.total_duration_max,
         no_of_jobs |-> n]

\* Lines 238-261: the averages and the JobDurationStats returned.
JobDurationStats(a) ==
    LET none == a.no_of_jobs <= 0
        n == a.no_of_jobs
    IN  [runtime_duration_avg |->
             IF none THEN Zero ELSE Quotient(a.total_runtime_duration, n),
         runtime_duration_min |-> IF none THEN 0 ELSE a.runtime_duration_min,
         runtime_duration_max |-> a.runtime_duration_max,
         queue_duration_avg |->
             IF none THEN Zero ELSE Quotient(a.total_queue_duration, n),
         queue_duration_min |-> IF none THEN 0 ELSE a.queue_duration_min,
         queue_duration_max |-> a.queue_duration_max,
         total_duration_avg |->
             IF none THEN Zero ELSE Quotient(a.total_job_duration, n),
         total_duration_min |-> IF none THEN 0 ELSE a.total_duration_min,
         total_duration_max |-> a.total_duration_max,
         no_of_jobs |-> n]

\* Lines 204-211: what the head of the loop body raises for a row.
StatsRowRaises(row) ==
    IF ~HasColumns(row, 4) THEN "IndexError"
    ELSE IF ~IsFloatText(row.duration) THEN "ValueError"
    ELSE IF ~HasColumns(row, 5) THEN "IndexError"
    ELSE IF ~IsFloatText(row.queued_duration) THEN "ValueError"
    ELSE IF ~HasColumns(row, 8) THEN "IndexError"
    ELSE ""

\* get_job_stats: what it raises ("" if nothing) and what it returns.
get_job_stats(job_name, runner, f) ==
    LET rows == csv_reader(f)
        raised == FirstRaised([i \in 1..Len(rows) |->
                                  StatsRowRaises(rows[i])])
    IN  IF ~f.exists
        THEN [raised |-> "RuntimeError", value |-> JobDurationStats(StatsInit)]
        ELSE IF raised # ""
        THEN [raised |-> raised, value |-> JobDurationStats(StatsInit)]
        ELSE [raised |-> "",
              value |-> JobDurationStats(
                            StatsLoop(StatsInit, rows, job_name, runner))]

\* ----------------------------------------------------------------- state

VARIABLES
    jobs,           \* per project: the remote's jobs, in creation order
    store,          \* per project: the file jobs_<id>.csv
    tmp,            \* per project: the file jobs_<id>.csv.tmp
    pc,             \* where fetch_jobs_data stands
    proj,           \* the project being fetched
    cutoff_date,
    latest_data_cutoff,
    page,
    hit_cutoff,
    nfetch,         \* runs of fetch_jobs_data so far
    \* history, read by the properties only
    prev,           \* the store file when the current run started
    written,        \* the rows the current run wrote
    insync,         \* the remote has not changed since the current run began
    rerun,          \* how the current run follows the previous one
    stale,          \* the current run found the .tmp rows of a crashed run
    \* a call of get_job_stats
    query,          \* its arguments job_name and runner
    stats,          \* what it raised and returned, None before the call
    measured,       \* the same for a call of get_measured_jobs
    \* main
    mpc,            \* where main stands
    no_fetch,       \* args.no_fetch
    measure_since,  \* config.measure_since
    repo_i,         \* the index of the current repo in config.repos
    csv_data_files, \* the dict of line 71, unbound before line 71 ran
    runner_stats,   \* the dict of line 81
    \* the store file as text
    disk,           \* the characters of the store file
    history,        \* the rows written to it so far, newest first
    loaded          \* what csv.reader returned for it, None before it read

fetchVars == <<pc, proj, cutoff_date, latest_data_cutoff, page, hit_cutoff,
               nfetch, prev, written, insync, rerun, stale>>
aggVars == <<query, stats, measured>>
mainVars == <<mpc, no_fetch, measure_since, repo_i, csv_data_files,
              runner_stats>>
csvVars == <<disk, history, loaded>>
outerVars == <<aggVars, mainVars, csvVars>>
vars == <<jobs, store, tmp, fetchVars, outerVars>>

\* ---------------------------------------------------------- remote actions

\* A job is created on the remote, pending/running or already successful.
RemoteCreate(p) ==
    /\ Len(jobs[p]) < MaxJobs
    /\ \E t \in {LastCreated(jobs[p]), LastCreated(jobs[p]) + 1},
          st \in {"running", "success"},
          rn \in {None, Some(RunnerMeta)} :
          /\ st = "running" => Len(SelectSeq(jobs[p], IsRunning)) < MaxRunning
          /\ rn = None => Len(SelectSeq(jobs[p], HasNoRunner)) < MaxNoRunner
          /\ jobs' = [jobs EXCEPT ![p] = Append(@, Job(Len(@) + 1, t, st, rn))]
    /\ insync' = FALSE
    /\ UNCHANGED <<store, tmp, pc, proj, cutoff_date, latest_data_cutoff,
                   page, hit_cutoff, nfetch, prev, written, rerun, stale>>
    /\ UNCHANGED outerVars

\* A running job completes successfully.
RemoteComplete(p) ==
    /\ \E i \in 1..Len(jobs[p]) :
          /\ jobs[p][i].status = "running"
          /\ jobs' = [jobs EXCEPT ![p][i].status = "success"]
    /\ insync' = FALSE
    /\ UNCHANGED <<store, tmp, pc, proj, cutoff_date, latest_data_cutoff,
                   page, hit_cutoff, nfetch, prev, written, rerun, stale>>
    /\ UNCHANGED outerVars

\* ------------------------------------------------------- fetch_jobs_data

Idle == pc \in {"idle", "done", "failed", "crashed"}

\* Lines 36-66: the session, the project, latest_data_cutoff, cutoff_date,
\* and the .tmp file opened for writing.
FetchBegin(p, since) ==
    /\ Idle
    /\ LatestRaises(store[p]) = ""
    /\ pc' = "paging"
    /\ proj' = p
    /\ latest_data_cutoff' = LatestDataCutoff(store[p])
    /\ cutoff_date' = CutoffDate(since)
    /\ tmp' = [tmp EXCEPT ![p] = OpenForWrite(@)]
    /\ page' = 1
    /\ hit_cutoff' = FALSE
    /\ nfetch' = nfetch + 1
    /\ prev' = store[p]
    /\ written' = <<>>
    /\ rerun' = IF pc = "done" /\ insync /\ proj = p
                THEN (IF CutoffDate(since) >= cutoff_date THEN "not_earlier" ELSE "earlier")
                ELSE "none"
    /\ insync' = TRUE
    /\ stale' = (pc = "crashed" /\ tmp[p].rows # <<>>)
    /\ UNCHANGED <<jobs, store>>
    /\ UNCHANGED outerVars

\* Lines 41-43: gl.auth() or gl.projects.get() raises.
FetchBeginFails(p, since) ==
    /\ Idle
    /\ pc' = "failed"
    /\ proj' = p
    /\ nfetch' = nfetch + 1
    /\ prev' = store[p]
    /\ written' = <<>>
    /\ rerun' = "none"
    /\ insync' = FALSE
    /\ stale' = FALSE
    /\ UNCHANGED <<jobs, store, tmp, cutoff_date, latest_data_cutoff, page,
                   hit_cutoff>>
    /\ UNCHANGED outerVars

\* Lines 50-55: reading the first row of the store file raises.
FetchBeginCorrupt(p, since) ==
    /\ Idle
    /\ LatestRaises(store[p]) # ""
    /\ pc' = "failed"
    /\ proj' = p
    /\ nfetch' = nfetch + 1
    /\ prev' = store[p]
    /\ written' = <<>>
    /\ rerun' = "none"
    /\ insync' = FALSE
    /\ stale' = FALSE
    /\ UNCHANGED <<jobs, store, tmp, cutoff_date, latest_data_cutoff, page,
                   hit_cutoff>>
    /\ UNCHANGED outerVars

\* Lines 70-121: one turn of the while loop.
FetchPage ==
    /\ pc = "paging"
    /\ LET job_batch == PageOf(Listing(jobs[proj]), page, per_page)
           scan == ScanBatch(job_batch, cutoff_date, latest_data_cutoff)
       IN  IF job_batch = <<>>
           THEN /\ pc' = "copy"
                /\ UNCHANGED <<tmp, written, page, hit_cutoff>>
           ELSE /\ tmp' = [tmp EXCEPT ![proj].rows = @ \o scan.rows]
                /\ written' = written \o scan.rows
                /\ hit_cutoff' = scan.hit
                /\ page' = page + 1
                /\ pc' = IF scan.hit THEN "copy" ELSE "paging"
    /\ UNCHANGED <<jobs, store, proj, cutoff_date, latest_data_cutoff, nfetch,
                   prev, insync, rerun, stale>>
    /\ UNCHANGED outerVars

\* The store file after project.jobs.list() raised, had the error path
\* moved the .tmp file into place.
StoreAfterApiErrorMoved(p) == tmp[p]

\* The store file after project.jobs.list() raised: the exception leaves
\* fetch_jobs_data through the with block, lines 123-130 do not run.
StoreAfterApiError(p) == store[p]

\* Lines 72-79: project.jobs.list() raises.
FetchPageFails ==
    /\ pc = "paging"
    /\ pc' = "failed"
    /\ store' = [store EXCEPT ![proj] = StoreAfterApiError(proj)]
    /\ insync' = FALSE
    /\ UNCHANGED <<jobs, tmp, proj, cutoff_date, latest_data_cutoff, page,
                   hit_cutoff, nfetch, prev, written, rerun, stale>>
    /\ UNCHANGED outerVars

\* Lines 124-127: the previous content is appended to the .tmp file.
TmpAfterCopy(p) ==
    IF store[p].exists
    THEN [tmp[p] EXCEPT !.rows = @ \o TranslateNewlines(store[p].rows)]
    ELSE tmp[p]

FetchCopy ==
    /\ pc = "copy"
    /\ tmp' = [tmp EXCEPT ![proj] = TmpAfterCopy(proj)]
    /\ pc' = "move"
    /\ UNCHANGED <<jobs, store, proj, cutoff_date, latest_data_cutoff, page,
                   hit_cutoff, nfetch, prev, written, insync, rerun, stale>>
    /\ UNCHANGED outerVars

\* Line 130: shutil.move, a rename within one directory.
FetchMove ==
    /\ pc = "move"
    /\ store' = [store EXCEPT ![proj] = tmp[proj]]
    /\ tmp' = [tmp EXCEPT ![proj] = Absent]
    /\ pc' = "done"
    /\ UNCHANGED <<jobs, proj, cutoff_date, latest_data_cutoff, page,
                   hit_cutoff, nfetch, prev, written, insync, rerun, stale>>
    /\ UNCHANGED outerVars

\* The process dies.  What it wrote to the .tmp file and had not flushed is
\* lost; a copy under way stops part-way.
Crash ==
    /\ pc \in {"paging", "copy", "move"}
    /\ pc' = "crashed"
    /\ \E rows \in (IF pc = "copy"
                    THEN {tmp[proj].rows \o q :
                            q \in Prefixes(Drop(TmpAfterCopy(proj).rows,
                                                 Len(tmp[proj].rows)))}
                    ELSE IF pc = "paging" THEN Prefixes(tmp[proj].rows)
                    ELSE {tmp[proj].rows}) :
          tmp' = [tmp EXCEPT ![proj].rows = rows]
    /\ insync' = FALSE
    /\ UNCHANGED <<jobs, store, proj, cutoff_date, latest_data_cutoff, page,
                   hit_cutoff, nfetch, prev, written, rerun, stale>>
    /\ UNCHANGED outerVars

\* ------------------------------------------------------------ the cache

FetchInit ==
    /\ jobs = [p \in Projects |-> <<>>]
    /\ store = [p \in Projects |-> Absent]
    /\ tmp = [p \in Projects |-> Absent]
    /\ pc = "idle"
    /\ proj = 1
    /\ cutoff_date = 0
    /\ latest_data_cutoff = None
    /\ page = 1
    /\ hit_cutoff = FALSE
    /\ nfetch = 0
    /\ prev = Absent
    /\ written = <<>>
    /\ insync = FALSE
    /\ rerun = "none"
    /\ stale = FALSE

\* The configured runner matchers; two of them share a name.
Runners ==
    << Runner("hpc", Some("hpc-.*"), None, None),
       Runner("all", None, None, None),
       Runner("hpc", Some("hpc-1"), Some(2), None) >>

OuterInit ==
    /\ query = [job_name |-> "build", runner |-> Runners[1]]
    /\ stats = None
    /\ measured = None
    /\ mpc = "none"
    /\ no_fetch = FALSE
    /\ measure_since = 0
    /\ repo_i = 1
    /\ csv_data_files = [bound |-> FALSE, files |-> {}]
    /\ runner_stats = <<>>
    /\ disk = <<>>
    /\ history = <<>>
    /\ loaded = None

Init == FetchInit /\ OuterInit

\* The program is run again.
Run == \E s \in SinceDates : nfetch < MaxFetches /\ FetchBegin(1, s)
RunFails == \E s \in SinceDates : nfetch < MaxFetches /\ FetchBeginFails(1, s)

Next ==
    \/ RemoteCreate(1)
    \/ RemoteComplete(1)
    \/ Run
    \/ RunFails
    \/ FetchPage
    \/ FetchPageFails
    \/ FetchCopy
    \/ FetchMove
    \/ Crash

Spec == Init /\ [][Next]_vars

\* ------------------------------------------------------- the aggregation

\* A row as fetch_jobs_data writes it, for a job with these values.
SampleRow(t, n, d, q, desc) ==
    RowOf([id |-> 1, created_at |-> t, name |-> n, status |-> "success",
           duration |-> d, queued_duration |-> q,
           runner |-> Some([RunnerMeta EXCEPT !.description = desc]),
           tag_list |-> << <<"d">>, <<"x">> >>, web_url |-> 1])

SampleRows ==
    {SampleRow(t, n, d, q, desc) :
        t \in {1, 2}, n \in {"build", "test"}, d \in {5, 10000001},
        q \in {3}, desc \in {"hpc-1", "hpc-2"}}

SampleStores ==
    {[exists |-> TRUE, rows |-> r] :
        r \in UNION {[1..k -> SampleRows] : k \in 0..MaxRows}}

SampleRunners ==
    {Runner("r", pat, from, to) :
        pat \in {None, Some(""), Some("hpc-1"), Some("hpc-.*")},
        from \in {None, Some(2)}, to \in {None, Some(1), Some(2)}}

AggInit ==
    /\ jobs = [p \in Projects |-> <<>>]
    /\ \E f \in SampleStores : store = [p \in Projects |-> f]
    /\ tmp = [p \in Projects |-> Absent]
    /\ pc = "idle"
    /\ proj = 1
    /\ cutoff_date = 0
    /\ latest_data_cutoff = None
    /\ page = 1
    /\ hit_cutoff = FALSE
    /\ nfetch = 0
    /\ prev = Absent
    /\ written = <<>>
    /\ insync = FALSE
    /\ rerun = "none"
    /\ stale = FALSE
    /\ query \in [job_name : {"build", "test"}, runner : SampleRunners]
    /\ stats = None
    /\ measured = None
    /\ mpc = "none"
    /\ no_fetch = FALSE
    /\ measure_since = 0
    /\ repo_i = 1
    /\ csv_data_files = [bound |-> FALSE, files |-> {}]
    /\ runner_stats = <<>>
    /\ disk = <<>>
    /\ history = <<>>
    /\ loaded = None

CallGetJobStats ==
    /\ stats = None
    /\ stats' = Some(get_job_stats(query.job_name, query.runner, store[1]))
    /\ UNCHANGED <<jobs, store, tmp, fetchVars, query, measured, mainVars,
                   csvVars>>

AggNext == CallGetJobStats

SpecStats == AggInit /\ [][AggNext]_vars

\* ------------------------------------------- the readers of a store file

\* Rows of a store file handed to the readers.
MaxLoadRows == 3

LoadNames == {"build", "build2", "Test"}

\* A line without a cell, a line of two cells, and a row whose duration
\* cell is empty.
BlankRow == [eol |-> "LF"]
ShortRow == [created_at |-> 2, job_name |-> "build", eol |-> "LF"]
NoDurationRow == [SampleRow(2, "build", 5, 3, "hpc-1") EXCEPT !.duration = <<>>]

LoadRows ==
    {SampleRow(t, n, 5, 3, "hpc-1") : t \in {1, 2}, n \in LoadNames}
        \cup {BlankRow, ShortRow, NoDurationRow}

LoadStores ==
    {[exists |-> TRUE, rows |-> r] :
        r \in UNION {[1..k -> LoadRows] : k \in 0..MaxLoadRows}}

LoadInit ==
    /\ jobs = [p \in Projects |-> <<>>]
    /\ \E f \in LoadStores : store = [p \in Projects |-> f]
    /\ tmp = [p \in Projects |-> Absent]
    /\ pc = "idle"
    /\ proj = 1
    /\ cutoff_date = 0
    /\ latest_data_cutoff = None
    /\ page = 1
    /\ hit_cutoff = FALSE
    /\ nfetch = 0
    /\ prev = Absent
    /\ written = <<>>
    /\ insync = FALSE
    /\ rerun = "none"
    /\ stale = FALSE
    /\ query \in [job_name : {"build", "Test"}, runner : {Runners[2]}]
    /\ stats = None
    /\ measured = None
    /\ mpc = "none"
    /\ no_fetch = FALSE
    /\ measure_since = 0
    /\ repo_i = 1
    /\ csv_data_files = [bound |-> FALSE, files |-> {}]
    /\ runner_stats = <<>>
    /\ disk = <<>>
    /\ history = <<>>
    /\ loaded = None

CallGetMeasuredJobs ==
    /\ measured = None
    /\ measured' = Some(get_measured_jobs(store[1]))
    /\ UNCHANGED <<jobs, store, tmp, fetchVars, query, stats, mainVars,
                   csvVars>>

\* fetch_jobs_data is run once on the store file.
LoadFetch == \E s \in SinceDates : pc = "idle" /\ FetchBegin(1, s)
LoadFetchCorrupt ==
    \E s \in SinceDates : pc = "idle" /\ FetchBeginCorrupt(1, s)

LoadNext ==
    \/ CallGetJobStats
    \/ CallGetMeasuredJobs
    \/ LoadFetch
    \/ LoadFetchCorrupt
    \/ FetchPage
    \/ FetchCopy
    \/ FetchMove

SpecLoad == LoadInit /\ [][LoadNext]_vars

\* ---------------------------------------------------------------- main

\* config.repos: the configured projects, in order.
Repos == [i \in 1..NumProjects |-> i]

\* round(x, 2) of a quotient, to the nearest hundredth, ties to even.
Round2(x) ==
    LET n == 100 * x.num
        q == n \div x.den
        r == n % x.den
    IN  Quotient(IF 2 * r > x.den \/ (2 * r = x.den /\ q % 2 = 1)
                 THEN q + 1 ELSE q, 100)

\* Lines 93-104: the dict stored for one JobDurationStats.
StatsDict(st) ==
    [no_of_jobs |-> st.no_of_jobs,
     runtime_duration_avg |-> Round2(st.runtime_duration_avg),
     runtime_duration_min |-> st.runtime_duration_min,
     runtime_duration_max |-> st.runtime_duration_max,
     queue_duration_avg |-> Round2(st.queue_duration_avg),
     queue_duration_min |-> st.queue_duration_min,
     queue_duration_max |-> st.queue_duration_max,
     total_duration_avg |-> Round2(st.total_duration_avg),
     total_duration_min |-> st.total_duration_min,
     total_duration_max |-> st.total_duration_max]

\* Lines 90-104: the inner dict of one job name, keyed by runner.name; a
\* later runner of the same name replaces the entry of an earlier one.
RECURSIVE StatsByRunner(_, _, _, _)
StatsByRunner(d, runners, job_name, f) ==
    IF runners = <<>> THEN d
    ELSE LET runner == Head(runners)
             entry == StatsDict(get_job_stats(job_name, runner, f).value)
         IN  StatsByRunner(
                 [n \in DOMAIN d \cup {runner.name} |->
                     IF n = runner.name THEN entry ELSE d[n]],
                 Tail(runners), job_name, f)

\* Lines 86-104: the dict of one repo.
RepoStats(f) ==
    LET project_jobs == get_measured_jobs(f).value
    IN  [n \in Range(project_jobs) |-> StatsByRunner(<<>>, Runners, n, f)]

\* The jobs a project's remote may hold when main starts.
RECURSIVE RemoteStates(_)
RemoteStates(n) ==
    IF n = 0 THEN {<<>>}
    ELSE LET shorter == RemoteStates(n - 1)
         IN  shorter \cup
             UNION {{Append(js, Job(Len(js) + 1, t, "success", rn)) :
                        t \in {LastCreated(js), LastCreated(js) + 1},
                        rn \in {None, Some(RunnerMeta)}} :
                    js \in {x \in shorter : Len(x) = n - 1}}

\* The store file a completed run of fetch_jobs_data left for these jobs.
CachedStore(js) ==
    [exists |-> TRUE, rows |-> ScanBatch(Listing(js), 0, None).rows]

MainInit ==
    /\ jobs \in [Projects -> RemoteStates(MainJobs)]
    /\ no_fetch \in BOOLEAN
    /\ \E cached \in BOOLEAN :
          /\ no_fetch => cached
          /\ store = [p \in Projects |->
                         IF cached THEN CachedStore(jobs[p]) ELSE Absent]
    /\ tmp = [p \in Projects |-> Absent]
    /\ pc = "idle"
    /\ proj = 1
    /\ cutoff_date = 0
    /\ latest_data_cutoff = None
    /\ page = 1
    /\ hit_cutoff = FALSE
    /\ nfetch = 0
    /\ prev = Absent
    /\ written = <<>>
    /\ insync = FALSE
    /\ rerun = "none"
    /\ stale = FALSE
    /\ query = [job_name |-> "build", runner |-> Runners[1]]
    /\ stats = None
    /\ measured = None
    /\ mpc = "start"
    /\ measure_since \in SinceDates
    /\ repo_i = 1
    /\ csv_data_files = [bound |-> FALSE, files |-> {}]
    /\ runner_stats = <<>>
    /\ disk = <<>>
    /\ history = <<>>
    /\ loaded = None

\* Lines 66-71: with --no-fetch the fetch loop and line 71 are skipped.
MainStart ==
    /\ mpc = "start"
    /\ IF no_fetch
       THEN /\ mpc' = "crunch"
            /\ UNCHANGED csv_data_files
       ELSE /\ mpc' = "fetch"
            /\ csv_data_files' = [bound |-> TRUE, files |-> {}]
    /\ repo_i' = 1
    /\ runner_stats' = <<>>
    /\ UNCHANGED <<jobs, store, tmp, fetchVars, aggVars, no_fetch,
                   measure_since, csvVars>>

\* Lines 72-77: fetch_jobs_data is called for the current repo.
MainFetch ==
    /\ mpc = "fetch"
    /\ pc = "idle"
    /\ repo_i <= Len(Repos)
    /\ \/ FetchBegin(Repos[repo_i], measure_since)
       \/ FetchBeginFails(Repos[repo_i], measure_since)

\* Line 75: fetch_jobs_data returned the path, which is stored.
MainFetched ==
    /\ mpc = "fetch"
    /\ pc = "done"
    /\ csv_data_files' = [csv_data_files EXCEPT !.files = @ \cup {proj}]
    /\ repo_i' = IF repo_i = Len(Repos) THEN 1 ELSE repo_i + 1
    /\ mpc' = IF repo_i = Len(Repos) THEN "crunch" ELSE "fetch"
    /\ pc' = "idle"
    /\ UNCHANGED <<jobs, store, tmp, proj, cutoff_date, latest_data_cutoff,
                   page, hit_cutoff, nfetch, prev, written, insync, rerun,
                   stale, aggVars, no_fetch, measure_since, runner_stats,
                   csvVars>>

\* Line 75: fetch_jobs_data raised; nothing in main catches it.
MainFetchRaised ==
    /\ mpc = "fetch"
    /\ pc = "failed"
    /\ mpc' = "error"
    /\ UNCHANGED <<jobs, store, tmp, fetchVars, aggVars, no_fetch,
                   measure_since, repo_i, csv_data_files, runner_stats,
                   csvVars>>

\* Whether lines 85-92 raise for a repo: csv_data_files unbound
\* (NameError), no entry for the repo (KeyError), or no file to open.
CrunchRaises(p) ==
    \/ ~csv_data_files.bound
    \/ p \notin csv_data_files.files
    \/ ~store[p].exists
    \/ get_measured_jobs(store[p]).raised # ""
    \/ /\ get_measured_jobs(store[p]).value # <<>>
       /\ get_job_stats(get_measured_jobs(store[p]).value[1], Runners[1],
                        store[p]).raised # ""

\* Lines 82-105: one turn of the loop over the repos.
MainCrunch ==
    /\ mpc = "crunch"
    /\ repo_i <= Len(Repos)
    /\ LET p == Repos[repo_i]
       IN  IF CrunchRaises(p)
           THEN /\ mpc' = "error"
                /\ runner_stats' = runner_stats @@ (p :> <<>>)
                /\ UNCHANGED repo_i
           ELSE /\ runner_stats' = runner_stats @@ (p :> RepoStats(store[p]))
                /\ repo_i' = repo_i + 1
                /\ UNCHANGED mpc
    /\ UNCHANGED <<jobs, store, tmp, fetchVars, aggVars, no_fetch,
                   measure_since, csv_data_files, csvVars>>

\* Lines 107-114: the reports are written.
MainReport ==
    /\ mpc = "crunch"
    /\ repo_i > Len(Repos)
    /\ mpc' = "done"
    /\ UNCHANGED <<jobs, store, tmp, fetchVars, aggVars, no_fetch,
                   measure_since, repo_i, csv_data_files, runner_stats,
                   csvVars>>

MainNext ==
    \/ MainStart
    \/ MainFetch
    \/ FetchPage
    \/ FetchPageFails
    \/ FetchCopy
    \/ FetchMove
    \/ MainFetched
    \/ MainFetchRaised
    \/ MainCrunch
    \/ MainReport

SpecMain == MainInit /\ [][MainNext]_vars

\* ------------------------------------------------ one run of the fetch

\* One run of fetch_jobs_data over a listing that stands still, from a
\* store file that is absent or holds the rows of the oldest k jobs.
TermInit ==
    /\ \E js \in {x \in RemoteStates(MaxJobs) :
                       Len(SelectSeq(x, HasNoRunner)) <= MaxNoRunner} :
          /\ jobs = [p \in Projects |-> js]
          /\ \E f \in {Absent} \cup
                      {CachedStore(SubSeq(js, 1, k)) : k \in 0..Len(js)} :
                store = [p \in Projects |-> f]
    /\ tmp = [p \in Projects |-> Absent]
    /\ pc = "idle"
    /\ proj = 1
    /\ cutoff_date = 0
    /\ latest_data_cutoff = None
    /\ page = 1
    /\ hit_cutoff = FALSE
    /\ nfetch = 0
    /\ prev = Absent
    /\ written = <<>>
    /\ insync = FALSE
    /\ rerun = "none"
    /\ stale = FALSE
    /\ OuterInit

TermRun == \E s \in SinceDates : pc = "idle" /\ FetchBegin(1, s)

TermNext == TermRun \/ FetchPage \/ FetchCopy \/ FetchMove

\* The function runs on once called: each of its steps is taken when it
\* can be.
SpecTerm ==
    /\ TermInit
    /\ [][TermNext]_vars
    /\ WF_vars(FetchPage)
    /\ WF_vars(FetchCopy)
    /\ WF_vars(FetchMove)

\* ------------------------------------------------- the store file as text

\* Rows one run writes, and rows the store file holds, in the behaviours
\* of SpecCsv.
MaxBatch == 2
MaxCsvRows == 3

\* Lines 64-66 and 52: the dialect of the writer and of the readers.
delimiter == ","
quotechar == "|"
lineterminator == <<"\r", "\n">>

\* The ten cells of line 104-115, in the order they are written.
RowList(r) ==
    <<r.created_at, r.job_name, r.status, r.duration, r.queued_duration,
      r.runner_description, r.runner_ip_address, r.runner_type, r.tags,
      r.web_url>>

\* A quote character inside a quoted cell is written twice.
RECURSIVE DoubleQuotes(_)
DoubleQuotes(cell) ==
    IF cell = <<>> THEN <<>>
    ELSE (IF Head(cell) = quotechar THEN <<quotechar, quotechar>>
          ELSE <<Head(cell)>>) \o DoubleQuotes(Tail(cell))

\* A writer that never quotes.
QuoteNone(cell) == cell

\* quoting=csv.QUOTE_MINIMAL: a cell is quoted if it holds the delimiter,
\* the quote character or a character of the line terminator.
QuoteMinimal(cell) ==
    IF \E i \in 1..Len(cell) : cell[i] \in {delimiter, quotechar, "\r", "\n"}
    THEN <<quotechar>> \o DoubleQuotes(cell) \o <<quotechar>>
    ELSE cell

RECURSIVE JoinCells(_)
JoinCells(cells) ==
    IF cells = <<>> THEN <<>>
    ELSE IF Len(cells) = 1 THEN cells[1]
    ELSE cells[1] \o <<delimiter>> \o JoinCells(Tail(cells))

\* jobs_csvwriter.writerow(cells): the characters written.
writerow(cells) ==
    JoinCells([i \in 1..Len(cells) |-> QuoteMinimal(cells[i])])
        \o lineterminator

RECURSIVE WriteRows(_)
WriteRows(rows) ==
    IF rows = <<>> THEN <<>> ELSE writerow(Head(rows)) \o WriteRows(Tail(rows))

\* open(csv_data_file, "r").read(): "\r\n" and "\r" are read as "\n".  The
\* "a+" file then writes "\n" as os.linesep, which is "\n".
RECURSIVE TextModeRead(_)
TextModeRead(text) ==
    IF text = <<>> THEN <<>>
    ELSE IF Head(text) = "\r"
         THEN <<"\n">> \o
              TextModeRead(IF Len(text) >= 2 /\ text[2] = "\n"
                           THEN Tail(Tail(text)) ELSE Tail(text))
         ELSE <<Head(text)>> \o TextModeRead(Tail(text))

\* csv.reader before the first character.
ReaderStart ==
    [mode |-> "start_record", field |-> <<>>, row |-> <<>>, rows |-> <<>>]

\* csv.reader on one character: its state is the mode, the cell and the
\* row under way, and the rows completed.
ReadChar(st, c) ==
    LET saved == Append(st.row, st.field)
        after == IF c = "\r" THEN "after_cr" ELSE "start_record"
        EndRow(r) == [mode |-> after, field |-> <<>>, row |-> <<>>,
                      rows |-> Append(st.rows, r)]
        NextCell == [st EXCEPT !.mode = "start_field", !.row = saved,
                               !.field = <<>>]
        Add(m) == [st EXCEPT !.mode = m, !.field = Append(@, c)]
        newline == c \in {"\r", "\n"}
    IN  CASE st.mode = "after_cr" /\ c = "\n" ->
                 [st EXCEPT !.mode = "start_record"]
          [] st.mode \in {"start_record", "after_cr"} /\ c # "\n" /\ newline ->
                 EndRow(<<>>)
          [] st.mode = "start_record" /\ c = "\n" -> EndRow(<<>>)
          [] st.mode \in {"start_record", "after_cr", "start_field"}
             /\ ~(st.mode # "start_field" /\ newline) ->
                 (IF newline THEN EndRow(saved)
                  ELSE IF c = quotechar THEN [st EXCEPT !.mode = "in_quoted"]
                  ELSE IF c = delimiter THEN NextCell
                  ELSE Add("in_field"))
          [] st.mode = "in_field" ->
                 (IF newline THEN EndRow(saved)
                  ELSE IF c = delimiter THEN NextCell
                  ELSE Add("in_field"))
          [] st.mode = "in_quoted" ->
                 (IF c = quotechar THEN [st EXCEPT !.mode = "quote_in_quoted"]
                  ELSE Add("in_quoted"))
          [] st.mode = "quote_in_quoted" ->
                 (IF c = quotechar THEN Add("in_quoted")
                  ELSE IF c = delimiter THEN NextCell
                  ELSE IF newline THEN EndRow(saved)
                  ELSE Add("in_field"))

\* The reader over a text; its state is evaluated at every character.
RECURSIVE ReadChars(_, _)
ReadChars(st, text) ==
    IF text = <<>> \/ st.mode = "error" THEN st
    ELSE ReadChars(ReadChar(st, Head(text)), Tail(text))

\* list(csv.reader(open(path, "r", newline=""), delimiter=",",
\* quotechar="|")): the rows, each the list of its cells.
csv_reader_text(text) ==
    LET st == ReadChars(ReaderStart, text)
    IN  IF st.mode \in {"start_record", "after_cr"} THEN st.rows
        ELSE Append(st.rows, Append(st.row, st.field))

\* A job of the remote with its values as texts.
TextJob(name, desc, tags) ==
    [id |-> <<"7">>, created_at |-> <<"T">>, name |-> name,
     status |-> <<"success">>, duration |-> "1.5", queued_duration |-> "0.5",
     runner |-> Some([description |-> desc, ip_address |-> <<"10.0.0.1">>,
                      runner_type |-> <<"instance_type">>]),
     tag_list |-> tags, web_url |-> <<"u">>]

TextJobs ==
    {TextJob(name, desc, tags) :
        name \in {<<"a">>, <<"a", ",", "b">>},
        desc \in {<<"h", "|">>, <<",">>},
        tags \in {<<>>, << <<"d">>, <<"x">> >>}}

\* Lines 63-130 for the text of the files: the rows of the listed jobs are
\* written to the .tmp file, the store file's text is appended, and the
\* .tmp file becomes the store file.
CsvFetch ==
    /\ loaded = None
    /\ \E js \in UNION {[1..k -> TextJobs] : k \in 1..MaxBatch} :
          LET rows == [i \in 1..Len(js) |-> RowList(RowOf(js[i]))]
          IN  /\ Len(history) + Len(js) <= MaxCsvRows
              /\ disk' = WriteRows(rows) \o TextModeRead(disk)
              /\ history' = rows \o history
    /\ UNCHANGED <<jobs, store, tmp, fetchVars, aggVars, mainVars, loaded>>

\* The store file is read back.
CsvLoad ==
    /\ loaded = None
    /\ loaded' = Some(csv_reader_text(disk))
    /\ UNCHANGED <<jobs, store, tmp, fetchVars, aggVars, mainVars, disk,
                   history>>

CsvNext == CsvFetch \/ CsvLoad

SpecCsv == Init /\ [][CsvNext]_vars

\* ------------------------------------------------- properties of the cache

StoreRows(p) == csv_reader(store[p])
Ids(rows) == [i \in 1..Len(rows) |-> rows[i].web_url]
NonIncreasing(rows) ==
    \A i \in 1..(Len(rows) - 1) : rows[i].created_at >= rows[i + 1].created_at

\* Within both bounds of the current run.
Qualifies(j) ==
    /\ j.created_at >= cutoff_date
    /\ latest_data_cutoff = None \/ j.created_at > latest_data_cutoff[1]
QualifiesComplete(j) == Qualifies(j) /\ j.runner # None
\* The current run completed and the listing stood still while it ran.
DoneStable == pc = "done" /\ insync

\* C1: the created_at values of the persisted rows are non-increasing from
\* the first row to the last, after any sequence of runs.
C1_StoreOrdered == \A p \in Projects : NonIncreasing(StoreRows(p))

\* C2 as stated: a run that follows a completed run, with the listing
\* unchanged since that run began and whatever its since_date, leaves the
\* store's rows as they were.
C2_IdempotentAnySince ==
    (DoneStable /\ rerun # "none") => StoreRows(proj) = csv_reader(prev)

\* C2 amended: the same, for a since_date that is not earlier than the
\* previous run's.
C2_IdempotentNotEarlier ==
    (DoneStable /\ rerun = "not_earlier") => StoreRows(proj) = csv_reader(prev)

C2_Witness ==
    /\ DoneStable
    /\ rerun = "not_earlier"
    /\ Len(StoreRows(proj)) >= 2
    /\ \E i \in 1..Len(jobs[proj]) : jobs[proj][i].runner = None

\* C3 as stated: the rows one run adds are exactly the listed jobs within
\* both bounds.
C3_AddedExactlyQualifying ==
    DoneStable =>
        Ids(written) = Ids(SelectSeq(Listing(jobs[proj]), Qualifies))

\* C3 amended: every row a run adds lies within both bounds, and the rows
\* added from a listing that stood still are exactly, in the listing's
\* order, the listed jobs within both bounds that have runner metadata.
C3_AddedExactlyQualifyingComplete ==
    /\ \A i \in 1..Len(written) :
          /\ written[i].created_at >= cutoff_date
          /\ latest_data_cutoff = None
                \/ written[i].created_at > latest_data_cutoff[1]
    /\ DoneStable =>
          LET q == SelectSeq(Listing(jobs[proj]), QualifiesComplete)
          IN  written = [i \in 1..Len(q) |-> RowOf(q[i])]

\* A job created exactly at the cutoff was added, one created exactly at
\* latest_data_cutoff was not.
C3_Witness ==
    /\ DoneStable
    /\ latest_data_cutoff # None
    /\ \E i \in 1..Len(written) : written[i].created_at = cutoff_date
    /\ \E i \in 1..Len(jobs[proj]) :
          /\ IsSuccess(jobs[proj][i])
          /\ jobs[proj][i].created_at = latest_data_cutoff[1]
          /\ i \notin Range(Ids(written))

\* The latest cutoff a run may use.
LatestCutoff == CutoffDate(1)

\* C4: after a run, every job the remote lists as successful, created at or
\* after the cutoff, is in the store.  Stated for the jobs with runner
\* metadata created at or after every cutoff a run may use.
C4_NoDataLoss ==
    DoneStable =>
        \A i \in 1..Len(jobs[proj]) :
            (/\ IsSuccess(jobs[proj][i])
             /\ jobs[proj][i].runner # None
             /\ jobs[proj][i].created_at >= LatestCutoff)
            => i \in Range(Ids(StoreRows(proj)))

\* C5: no remote job is stored more than once.
C5_NoDuplicates ==
    \A p \in Projects :
        \A i, k \in 1..Len(StoreRows(p)) :
            i # k => StoreRows(p)[i].web_url # StoreRows(p)[k].web_url

\* C6: while a run is under way or after it was interrupted the store file
\* is the file the run found, and after the move it is the rows the run
\* wrote followed by the rows the run found, whatever a .tmp file held.
C6_CrashSafe ==
    /\ pc \in {"paging", "copy", "move", "crashed"} => store[proj] = prev
    /\ pc = "done" =>
          store[proj] = [exists |-> TRUE,
                         rows |-> written \o TranslateNewlines(prev.rows)]

\* A run that found rows of an interrupted run in the .tmp file completed
\* and wrote rows of its own.
C6_Witness ==
    /\ pc = "done"
    /\ stale
    /\ Len(written) >= 2

\* C7: after an API failure the store file is exactly the file the run
\* found.
C7_ApiFailureKeepsStore == pc = "failed" => store[proj] = prev

\* The failure came after rows were buffered, with a store that had rows.
C7_Witness ==
    /\ pc = "failed"
    /\ tmp[proj].rows # <<>>
    /\ written # <<>>
    /\ prev.rows # <<>>

\* C8: a job without runner metadata has no row, and a run over a listing
\* that stood still stores every other job within the bounds, in the
\* listing's order.
C8_MalformedSkipped ==
    /\ \A p \in Projects : \A i \in 1..Len(StoreRows(p)) :
          /\ jobs[p][StoreRows(p)[i].web_url].runner # None
          /\ StoreRows(p)[i].runner_type # ""
    /\ DoneStable =>
          /\ \A i \in 1..Len(jobs[proj]) :
                (IsSuccess(jobs[proj][i]) /\ Qualifies(jobs[proj][i]))
                => (i \in Range(Ids(written)) <=> jobs[proj][i].runner # None)
          /\ \A i \in 1..(Len(written) - 1) :
                written[i].web_url > written[i + 1].web_url

\* The newest listed job has no runner metadata, and two older jobs, one of
\* them on the next page, were stored.
C8_Witness ==
    /\ DoneStable
    /\ Len(written) >= 2
    /\ Listing(jobs[proj])[1].runner = None
    /\ Qualifies(Listing(jobs[proj])[1])

\* ------------------------------------------ properties of main and stats

\* C9: when the fetch of one project failed, every other configured
\* project is still fetched and aggregated by the time main ends.
C9_FailureIsolated ==
    (mpc = "error" /\ pc = "failed") =>
        \A p \in Projects \ {proj} :
            p \in csv_data_files.files /\ p \in DOMAIN runner_stats

SetMin(S) == CHOOSE x \in S : \A y \in S : x <= y
SetMax(S) == CHOOSE x \in S : \A y \in S : x >= y
RECURSIVE SeqSum(_)
SeqSum(q) == IF q = <<>> THEN 0 ELSE Head(q) + SeqSum(Tail(q))

\* The rows of the store that the call's job name and matcher select.
Selected ==
    SelectSeq(StoreRows(1),
              LAMBDA r : /\ r.job_name = query.job_name
                         /\ match_runner(r.created_at, r.runner_description,
                                         query.runner))
RunTimes == [i \in 1..Len(Selected) |-> float(Selected[i].duration)]
QueueTimes == [i \in 1..Len(Selected) |-> float(Selected[i].queued_duration)]
TotalTimes == [i \in 1..Len(Selected) |-> RunTimes[i] + QueueTimes[i]]

\* C10: get_job_stats returns the number of selected rows and, for each of
\* the three families, the true minimum, maximum and sum/count over them.
C10_StatsCorrect ==
    stats # None =>
        LET s == stats[1].value
            n == Len(Selected)
        IN  /\ stats[1].raised = ""
            /\ s.no_of_jobs = n
            /\ n > 0 =>
                /\ s.runtime_duration_min = SetMin(Range(RunTimes))
                /\ s.runtime_duration_max = SetMax(Range(RunTimes))
                /\ s.runtime_duration_avg = Quotient(SeqSum(RunTimes), n)
                /\ s.queue_duration_min = SetMin(Range(QueueTimes))
                /\ s.queue_duration_max = SetMax(Range(QueueTimes))
                /\ s.queue_duration_avg = Quotient(SeqSum(QueueTimes), n)
                /\ s.total_duration_min = SetMin(Range(TotalTimes))
                /\ s.total_duration_max = SetMax(Range(TotalTimes))
                /\ s.total_duration_avg = Quotient(SeqSum(TotalTimes), n)


\* C11: when no row of an existing store file has the call's job name and
\* is accepted by its matcher (an empty file included), get_job_stats does
\* not raise and returns no_of_jobs = 0 and 0.0 in all nine avg/min/max
\* fields.
C11_EmptyMatchZero ==
    (stats # None /\ Len(Selected) = 0) =>
        /\ stats[1].raised = ""
        /\ stats[1].value =
              [runtime_duration_avg |-> Zero, runtime_duration_min |-> 0,
               runtime_duration_max |-> 0,
               queue_duration_avg |-> Zero, queue_duration_min |-> 0,
               queue_duration_max |-> 0,
               total_duration_avg |-> Zero, total_duration_min |-> 0,
               total_duration_max |-> 0, no_of_jobs |-> 0]

\* The call returned for a store with two rows of the call's job name,
\* both rejected by the matcher.
C11_Witness ==
    /\ stats # None
    /\ Len(Selected) = 0
    /\ Len(StoreRows(1)) = 2
    /\ \A i \in 1..2 : StoreRows(1)[i].job_name = query.job_name


\* The acceptance of a record as the claim states it.
AcceptsAsStated(t, desc, runner) ==
    /\ runner.matcher_name = None \/ fullmatch(runner.matcher_name[1], desc)
    /\ runner.matcher_from = None \/ t >= runner.matcher_from[1]
    /\ runner.matcher_to = None \/ t <= runner.matcher_to[1]

\* The same, with an empty name pattern counted as unset.
AcceptsEmptyAsUnset(t, desc, runner) ==
    /\ \/ runner.matcher_name = None
       \/ runner.matcher_name[1] = ""
       \/ fullmatch(runner.matcher_name[1], desc)
    /\ runner.matcher_from = None \/ t >= runner.matcher_from[1]
    /\ runner.matcher_to = None \/ t <= runner.matcher_to[1]

\* The rows of the store with the call's job name.
Named == SelectSeq(StoreRows(1), LAMBDA r : r.job_name = query.job_name)

BareNewline(text) ==
    \E i \in 1..Len(text) : text[i] = "\n" /\ (i = 1 \/ text[i - 1] # "\r")

NamesIn(p) == {StoreRows(p)[i].job_name : i \in 1..Len(StoreRows(p))}

\* C14: when main has written its reports, the result holds, for every
\* configured project, every job name in the project's store and every
\* configured runner matcher, the statistics of that store, job name and
\* matcher under the matcher's name.
C14_OutputComplete ==
    mpc = "done" =>
        \A p \in Projects :
            /\ p \in DOMAIN runner_stats
            /\ \A n \in NamesIn(p) :
                  /\ n \in DOMAIN runner_stats[p]
                  /\ \A i \in 1..Len(Runners) :
                        /\ Runners[i].name \in DOMAIN runner_stats[p][n]
                        /\ runner_stats[p][n][Runners[i].name] =
                              StatsDict(get_job_stats(n, Runners[i],
                                                      store[p]).value)


\* C15: get_measured_jobs returns the job names that occur in the rows of
\* the store, each once and no other, in ascending order of their code
\* points, whatever the order and the number of the rows they occur in.
C15_MeasuredJobsSorted ==
    (measured # None /\ measured[1].raised = "") =>
        LET v == measured[1].value
        IN  /\ Range(v) = NamesIn(1)
            /\ \A i \in 1..(Len(v) - 1) : str_less(v[i], v[i + 1])

\* The store held a name twice and, after it, a name that sorts before it.
C15_Witness ==
    /\ measured # None
    /\ measured[1].raised = ""
    /\ Len(StoreRows(1)) = MaxLoadRows
    /\ StoreRows(1)[1].job_name = "build2"
    /\ StoreRows(1)[2].job_name = "build2"
    /\ StoreRows(1)[3].job_name = "Test"
    /\ Len(measured[1].value) = 2

\* A row that cannot be parsed: fewer than ten cells, or a duration cell
\* that is not a number.
Malformed(row) ==
    \/ ~HasColumns(row, Len(Columns))
    \/ ~IsFloatText(row.duration)
    \/ ~IsFloatText(row.queued_duration)

\* The file without its malformed rows.
Cleaned(f) ==
    [f EXCEPT !.rows = SelectSeq(@, LAMBDA r : ~Malformed(Cells(r)))]

\* C16: each reader of a store file with a malformed row returns what it
\* returns for the file without that row, and does not raise:
\* get_job_stats, get_measured_jobs, and the reading of latest_data_cutoff
\* at the start of fetch_jobs_data.
C16_MalformedRowSkipped ==
    /\ stats # None =>
          stats[1] = get_job_stats(query.job_name, query.runner,
                                   Cleaned(store[1]))
    /\ measured # None => measured[1] = get_measured_jobs(Cleaned(store[1]))
    /\ pc # "failed"
    /\ pc \in {"paging", "copy", "move", "done"} =>
          latest_data_cutoff = LatestDataCutoff(Cleaned(prev))


IsSuffix(s, t) ==
    /\ Len(s) <= Len(t)
    /\ SubSeq(t, Len(t) - Len(s) + 1, Len(t)) = s

\* C18: after a completed run the content the store file had when the run
\* began is, unchanged, the end of the store file: no row was removed,
\* rewritten or reordered.
C18_AppendOnlyVerbatim ==
    pc = "done" => IsSuffix(prev.rows, store[proj].rows)

\* C19: with --no-fetch no fetch is run and no store file is changed, main
\* does not fail, and when it has written its reports the result holds the
\* statistics of every configured project's cached store.
C19_NoFetchAggregates ==
    no_fetch =>
        /\ nfetch = 0
        /\ \A p \in Projects : store[p] = CachedStore(jobs[p])
        /\ mpc # "error"
        /\ mpc = "done" =>
              \A p \in Projects :
                  /\ p \in DOMAIN runner_stats
                  /\ DOMAIN runner_stats[p] = NamesIn(p)


\* The page a request of the current state returns.
CurrentBatch == PageOf(Listing(jobs[proj]), page, per_page)

\* The page holds a job at which the scan stops.
BatchStops ==
    \E i \in 1..Len(CurrentBatch) :
        StopsAt(CurrentBatch[i].created_at, cutoff_date, latest_data_cutoff)

\* A step of a run: page numbers are requested once each, in increasing
\* order; no page is requested after an empty page or a page with a job at
\* which the scan stops; the store file changes in the final move only.
RunStep ==
    /\ page' # page => (pc = "paging" /\ page' = page + 1)
    /\ (pc = "paging" /\ pc' = "paging") => page' = page + 1
    /\ (pc = "paging" /\ (CurrentBatch = <<>> \/ BatchStops)) => pc' = "copy"
    /\ pc \in {"copy", "move", "done"} => pc' # "paging"
    /\ store' # store => (pc = "move" /\ pc' = "done")

\* C20: a run of fetch_jobs_data that has begun paging ends with the merge
\* done, and every step of it is a RunStep.
C20_FetchTerminates ==
    /\ (pc = "paging") ~> (pc = "done")
    /\ [][RunStep]_vars

\* A run ended after two full pages and an empty third page.
C20_Witness ==
    /\ pc = "done"
    /\ ~hit_cutoff
    /\ page > per_page
    /\ Len(written) = MaxJobs

====
